---- MODULE Spec2Model ----
(***************************************************************************)
(* The entity-update protocol of wanpm: optimistic locking on a version    *)
(* column, and the multi-statement transactions that keep the join tables  *)
(* of Project and Timesheet in step with their primary rows.               *)
(*                                                                         *)
(* The store is PostgreSQL at READ COMMITTED: a single statement is        *)
(* atomic; inside a transaction a statement sees what is committed when it *)
(* runs plus the transaction's own writes; a row written by an open        *)
(* transaction is locked until that transaction ends.                      *)
(*                                                                         *)
(* A behaviour exercises one part of the program (variable scenario):      *)
(*   SpecRow        Role, Activity, Proposal, User, Client: one statement  *)
(*   SpecProject    Project with project_client and assignment             *)
(*   SpecTimesheet  Timesheet with its four join tables                    *)
(*   SpecReference  the timesheet handlers while the rows they check change*)
(*   SpecMinutes    the minutes that timesheets book on a day              *)
(*   SpecStorage    deleting a project and its stored objects              *)
(*   SpecActivation activating a user with an activation token             *)
(* and Spec is all of them together.                                       *)
(***************************************************************************)
EXTENDS Integers, FiniteSets, Sequences, TLC

\* ---------------------------------------------------------------- bounds
MaxVersion == 3
NumRequests == 2
MaxRows == 2
NumProjects == 1
NumClients == 2
NumUsers == 1
NumTimesheets == 1
NumRefs == 2
MaxPatchFields == 2
MaxRefChanges == 1
NumSheets == 3
NumDates == 2
DayMinutes == 1440
NumObjects == 2
NumTokens == 2

Requests == 1..NumRequests
RowIds == 1..MaxRows
Names == {"a", "b"}
ProjIds == 1..NumProjects
Clients == 1..NumClients
Users == 1..NumUsers
TsIds == 1..NumTimesheets
Refs == 1..NumRefs
RowEntities == {"role", "activity", "proposal", "user", "client"}
Scenarios == {"row", "project", "timesheet", "reference", "minutes",
              "storage", "activation"}

VARIABLES
    scenario,        \* the part of the program the behaviour exercises
    entity,          \* row scenario: the table under test
    row,             \* row scenario: id -> stored row
    commits,         \* row scenario: id -> number of Updates that returned nil
    rreq,            \* row scenario: request -> handler state
    project,         \* project scenario: internal_id -> project row
    client,          \* project scenario: id -> "absent" | "live" | "deleted"
    project_client,  \* project scenario: committed <<project, client>> rows
    assignment,      \* project scenario: committed <<employee, project>> rows
    preq,            \* project scenario: request -> handler and transaction state
    plast,           \* project scenario: the Get or Update call that has just returned
    timesheet,       \* timesheet scenario: id -> timesheet row
    ts_project,      \* timesheet scenario: committed <<timesheet, project>> rows
    ts_client,       \* timesheet scenario: committed <<timesheet, client>> rows
    ts_appuser,      \* timesheet scenario: committed <<timesheet, appuser>> rows
    ts_activity,     \* timesheet scenario: committed <<timesheet, activity>> rows
    treq,            \* timesheet scenario: request -> handler and transaction state
    tlast,           \* timesheet scenario: the Insert or Update call that has just returned
    refs,            \* reference scenario: the assignment and project_client rows
    breq,            \* reference scenario: request -> timesheet handler state
    worked,          \* minutes scenario: timesheet id -> user, work date, minutes
    wlast,           \* minutes scenario: the answer of the last request
    srow,            \* storage scenario: the project row, "live" or "deleted"
    objs,            \* storage scenario: object key -> "present", "marked", "gone"
    dreq,            \* storage scenario: request -> ProjectModel.Delete call state
    dlast,           \* storage scenario: what the Delete that has just ended returned
    auser,           \* activation scenario: the appuser row (activated, version)
    tokens,          \* activation scenario: the user's stored activation tokens
    areq,            \* activation scenario: request -> activateUserHandler state
    activations      \* activation scenario: token -> requests answered 200 with it

rowVars == <<entity, row, commits, rreq>>
projVars == <<project, client, project_client, assignment, preq, plast>>
tsVars == <<timesheet, ts_project, ts_client, ts_appuser, ts_activity, treq, tlast>>
refVars == <<refs, breq>>
minVars == <<worked, wlast>>
delVars == <<srow, objs, dreq, dlast>>
actVars == <<auser, tokens, areq, activations>>
notRow == <<scenario, projVars, tsVars, refVars, minVars, delVars, actVars>>
notProject == <<scenario, rowVars, tsVars, refVars, minVars, delVars, actVars>>
notTimesheet == <<scenario, rowVars, projVars, refVars, minVars, delVars, actVars>>
notReference == <<scenario, rowVars, projVars, treq, tlast, minVars, delVars,
                  actVars>>
notMinutes == <<scenario, rowVars, projVars, tsVars, refVars, delVars, actVars>>
notStorage == <<scenario, rowVars, projVars, tsVars, refVars, minVars, actVars>>
notActivation == <<scenario, rowVars, projVars, tsVars, refVars, minVars, delVars>>

\* ------------------------------------------------------- single-row tables
AbsentRow == [state |-> "absent", name |-> "", version |-> 0, created_at |-> 0,
              updated_at |-> 0]
IdleRowReq == [pc |-> "idle", id |-> 0, seen |-> AbsentRow, err |-> "none",
               outcome |-> "none", stored |-> AbsentRow, changed |-> FALSE,
               rivals |-> {}]

Live(tbl, id) == tbl[id].state = "live"

\* a WHERE clause without the version
VersionIgnored(stored, version) == stored.state = "live"

\* WHERE id = $3 AND version = $4: the row exists and holds that version
VersionMatches(stored, version) == stored.state = "live" /\ stored.version = version

\* name is UNIQUE in role, activity, proposal (project_id) and appuser (email)
NameTaken(tbl, id, n) == \E j \in RowIds \ {id} : Live(tbl, j) /\ tbl[j].name = n

\* an Update that tells a missing row from a stale version
DistinguishingUpdate(tbl, r) ==
    IF ~Live(tbl, r.id)
    THEN [tbl |-> tbl, err |-> "ErrRecordNotFound", version |-> r.version]
    ELSE IF tbl[r.id].version # r.version
    THEN [tbl |-> tbl, err |-> "ErrEditConflict", version |-> r.version]
    ELSE IF NameTaken(tbl, r.id, r.name)
    THEN [tbl |-> tbl, err |-> "ErrStore", version |-> r.version]
    ELSE [tbl |-> [tbl EXCEPT ![r.id].name = r.name,
                              ![r.id].version = tbl[r.id].version + 1,
                              ![r.id].updated_at = r.now],
          err |-> "nil", version |-> tbl[r.id].version + 1]

\* an Update that reads the row again after a conflict and writes once more
RetryingUpdate(tbl, r) ==
    IF Live(tbl, r.id) /\ ~NameTaken(tbl, r.id, r.name)
    THEN [tbl |-> [tbl EXCEPT ![r.id].name = r.name,
                              ![r.id].version = tbl[r.id].version + 1,
                              ![r.id].updated_at = r.now],
          err |-> "nil", version |-> tbl[r.id].version + 1]
    ELSE IF Live(tbl, r.id)
    THEN [tbl |-> tbl, err |-> "ErrStore", version |-> r.version]
    ELSE [tbl |-> tbl, err |-> "ErrEditConflict", version |-> r.version]

\* UPDATE t SET name = $1, version = version + 1, updated_at = $2
\* WHERE id = $3 AND version = $4 RETURNING version; sql.ErrNoRows becomes
\* ErrEditConflict
VersionGuardedUpdate(tbl, r) ==
    IF VersionMatches(tbl[r.id], r.version)
    THEN IF NameTaken(tbl, r.id, r.name)
         THEN [tbl |-> tbl, err |-> "ErrStore", version |-> r.version]
         ELSE [tbl |-> [tbl EXCEPT ![r.id].name = r.name,
                                   ![r.id].version = tbl[r.id].version + 1,
                                   ![r.id].updated_at = r.now],
               err |-> "nil", version |-> tbl[r.id].version + 1]
    ELSE [tbl |-> tbl, err |-> "ErrEditConflict", version |-> r.version]

RoleUpdate(tbl, r) == VersionGuardedUpdate(tbl, r)

ActivityUpdate(tbl, r) == VersionGuardedUpdate(tbl, r)

\* UPDATE proposal SET project_id = $1, version = version + 1 WHERE ...: the
\* SET clause has no updated_at, so the column keeps the value it holds
ProposalUpdate(tbl, r) ==
    VersionGuardedUpdate(tbl, [r EXCEPT !.now = tbl[r.id].updated_at])

UserUpdate(tbl, r) == VersionGuardedUpdate(tbl, r)

\* UPDATE client SET name = $1, ... WHERE id = $5 RETURNING version:
\* no version in the WHERE clause, no version = version + 1, no updated_at,
\* and the Scan error (sql.ErrNoRows included) is returned as it is
ClientUpdate(tbl, r) ==
    IF Live(tbl, r.id)
    THEN [tbl |-> [tbl EXCEPT ![r.id].name = r.name],
          err |-> "nil", version |-> tbl[r.id].version]
    ELSE [tbl |-> tbl, err |-> "ErrNoRows", version |-> r.version]

ModelUpdate(e, tbl, r) ==
    CASE e = "role" -> RoleUpdate(tbl, r)
      [] e = "activity" -> ActivityUpdate(tbl, r)
      [] e = "proposal" -> ProposalUpdate(tbl, r)
      [] e = "user" -> UserUpdate(tbl, r)
      [] e = "client" -> ClientUpdate(tbl, r)

\* RoleModel.Get and its like: SELECT ... WHERE id = $1; sql.ErrNoRows
\* becomes ErrRecordNotFound
RowGet(tbl, id) ==
    IF Live(tbl, id)
    THEN [found |-> TRUE, name |-> tbl[id].name, version |-> tbl[id].version]
    ELSE [found |-> FALSE, name |-> "", version |-> 0]

\* the update handlers: ErrEditConflict is answered 409, anything else 500;
\* updateClientHandler answers every error 500
UpdateOutcome(e, err) ==
    IF err = "nil" THEN "ok"
    ELSE IF e # "client" /\ err = "ErrEditConflict" THEN "edit_conflict"
    ELSE "server_error"

\* the time on a row's clock: it ticks with every Update of the row that
\* returns nil (time.Now() of the handler, NOW() of the store)
Now(cnt, id) == cnt[id]

\* INSERT INTO t (...) VALUES (...) RETURNING id, version: serial id, version
\* 1, created_at and updated_at DEFAULT NOW()
RowInsert(n) ==
    /\ scenario = "row"
    /\ \E id \in RowIds :
        /\ row[id].state = "absent"
        /\ \A j \in RowIds : j < id => row[j].state # "absent"
        /\ entity # "client" => ~NameTaken(row, id, n)
        /\ row' = [row EXCEPT ![id] = [state |-> "live", name |-> n, version |-> 1,
                                       created_at |-> Now(commits, id),
                                       updated_at |-> Now(commits, id)]]
    /\ UNCHANGED <<entity, commits, rreq, notRow>>

\* what Insert returns when the store reports a duplicate key: RoleModel
\* returns ErrDuplicateActivityName, ProposalModel returns the driver's error
InsertDuplicateError(e) ==
    CASE e = "role" -> "ErrDuplicateActivityName"
      [] e = "activity" -> "ErrDuplicateActivityName"
      [] e = "user" -> "ErrDuplicateEmail"
      [] OTHER -> "ErrStore"

\* the create handlers: createRoleHandler looks for ErrDuplicateRoleName,
\* createActivityHandler for ErrDuplicateActivityName, registerUserHandler for
\* ErrDuplicateEmail; createProposalHandler answers every error 500
CreateOutcome(e, err) ==
    IF err = "nil" THEN "created"
    ELSE IF \/ e = "role" /\ err = "ErrDuplicateRoleName"
            \/ e = "activity" /\ err = "ErrDuplicateActivityName"
            \/ e = "user" /\ err = "ErrDuplicateEmail"
    THEN "failed_validation"
    ELSE "server_error"

\* a create handler whose INSERT meets a row of the same name (role and
\* activity name, proposal project_id, appuser email are UNIQUE): the
\* statement fails and stores nothing
RowInsertDuplicate(r, n) ==
    /\ scenario = "row"
    /\ rreq[r].pc = "idle"
    /\ entity # "client"
    /\ NameTaken(row, 0, n)
    /\ rreq' = [rreq EXCEPT ![r] =
           [IdleRowReq EXCEPT !.pc = "created",
                              !.err = InsertDuplicateError(entity),
                              !.outcome = CreateOutcome(entity,
                                              InsertDuplicateError(entity))]]
    /\ UNCHANGED <<entity, row, commits, notRow>>

\* DELETE FROM t WHERE id = $1
RowDelete(id) ==
    /\ scenario = "row"
    /\ entity # "user"
    /\ Live(row, id)
    /\ row' = [row EXCEPT ![id].state = "deleted"]
    /\ UNCHANGED <<entity, commits, rreq, notRow>>

\* update handler, first half: Get(id); ErrRecordNotFound is answered 404
RowUpdateGet(r, id) ==
    /\ scenario = "row"
    /\ rreq[r].pc = "idle"
    /\ IF Live(row, id)
       THEN rreq' = [rreq EXCEPT ![r] = [IdleRowReq EXCEPT !.pc = "got", !.id = id,
                                                          !.seen = row[id]]]
       ELSE rreq' = [rreq EXCEPT ![r] = [IdleRowReq EXCEPT !.pc = "done", !.id = id,
                                                          !.err = "ErrRecordNotFound",
                                                          !.outcome = "not_found"]]
    /\ UNCHANGED <<entity, row, commits, notRow>>

\* update handler, second half: the input is laid over the row that Get
\* returned (its version included) and Update is called once
RowUpdateWrite(r, n) ==
    /\ scenario = "row"
    /\ rreq[r].pc = "got"
    /\ row[rreq[r].id].version < MaxVersion
    /\ commits[rreq[r].id] + 1 < MaxVersion
    /\ LET id == rreq[r].id
           res == ModelUpdate(entity, row, [id |-> id, name |-> n,
                                             version |-> rreq[r].seen.version,
                                             now |-> Now(commits, id) + 1])
       IN /\ row' = res.tbl
          /\ commits' = IF res.err = "nil" THEN [commits EXCEPT ![id] = @ + 1]
                        ELSE commits
          /\ rreq' = [rreq EXCEPT ![r].pc = "done", ![r].err = res.err,
                                  ![r].outcome = UpdateOutcome(entity, res.err),
                                  ![r].stored = row[id],
                                  ![r].changed = (res.tbl # row),
                                  ![r].rivals = {o \in Requests \ {r} :
                                      /\ rreq[o].pc = "got"
                                      /\ rreq[o].id = id
                                      /\ rreq[o].seen.version = rreq[r].seen.version}]
    /\ UNCHANGED <<entity, notRow>>

\* the response has been written; the goroutine serves the next request
RowRespond(r) ==
    /\ scenario = "row"
    /\ rreq[r].pc \in {"done", "created"}
    /\ rreq' = [rreq EXCEPT ![r] = IdleRowReq]
    /\ UNCHANGED <<entity, row, commits, notRow>>

NextRow ==
    \/ \E n \in Names : RowInsert(n)
    \/ \E r \in Requests, n \in Names : RowInsertDuplicate(r, n)
    \/ \E id \in RowIds : RowDelete(id)
    \/ \E r \in Requests, id \in RowIds : RowUpdateGet(r, id)
    \/ \E r \in Requests, n \in Names : RowUpdateWrite(r, n)
    \/ \E r \in Requests : RowRespond(r)

\* ------------------------------------------------- project and its joins
NoProject == [state |-> "absent", name |-> "", version |-> 0]
NoTx == [open |-> FALSE, row |-> NoProject, del |-> {}, ins |-> {},
         adel |-> FALSE, ains |-> {}]
NotGiven == [given |-> FALSE, set |-> {}]
NoSnapshot == [found |-> FALSE, name |-> "", version |-> 0, clients |-> {},
               assignments |-> {}]
IdleProjReq == [pc |-> "idle", p |-> 0, handler |-> FALSE, seen |-> NoSnapshot,
                S |-> {}, A |-> NotGiven, Sin |-> NotGiven, tx |-> NoTx]
NoCall == [op |-> "none", p |-> 0, handler |-> FALSE, called |-> FALSE,
           version |-> 0, S |-> {}, A |-> NotGiven, Sin |-> NotGiven,
           before |-> NoSnapshot, staged |-> NoTx, fault |-> FALSE,
           err |-> "none", outcome |-> "none", reads |-> {}]

\* the committed tables, as one value
ProjDb == [project |-> project, project_client |-> project_client,
           assignment |-> assignment]

ClientsOf(pcl, p) == {c \in Clients : <<p, c>> \in pcl}
AssignedTo(asg, p) == {u \in Users : <<u, p>> \in asg}

\* SELECT ... FROM project p LEFT JOIN (project_client JOIN client)
\* LEFT JOIN (assignment JOIN appuser JOIN role) WHERE p.project_id = $1:
\* one statement, so one snapshot of what is committed
ProjectGet(db, p) ==
    IF db.project[p].state = "live"
    THEN [found |-> TRUE, name |-> db.project[p].name,
          version |-> db.project[p].version,
          clients |-> ClientsOf(db.project_client, p),
          assignments |-> AssignedTo(db.assignment, p)]
    ELSE NoSnapshot

\* what a statement of transaction tx sees of project p's client rows
TxClients(db, tx, p) == (ClientsOf(db.project_client, p) \ tx.del) \cup tx.ins

\* tx.Commit(): the transaction's writes become the committed rows
TxCommit(db, tx, p) ==
    [project |-> [db.project EXCEPT ![p] = tx.row],
     project_client |-> (db.project_client \ {<<p, c>> : c \in tx.del})
                            \cup {<<p, c>> : c \in tx.ins},
     assignment |-> (IF tx.adel THEN {a \in db.assignment : a[2] # p}
                     ELSE db.assignment) \cup {<<u, p>> : u \in tx.ains}]

\* a return that leaves the transaction's writes behind
TxLeak(db, tx, p) == TxCommit(db, tx, p)

\* defer tx.Rollback(): the transaction's writes are discarded
TxRollback(db, tx, p) == db

\* a row written by an open transaction stays locked until it ends
RowLocked(r, p) == \E o \in Requests \ {r} : preq[o].tx.open /\ preq[o].p = p

\* a read that sees the writes of a transaction still open on p
DirtyView(db, p) ==
    IF \E o \in Requests : preq[o].tx.open /\ preq[o].p = p
    THEN TxCommit(db, preq[CHOOSE o \in Requests :
                               preq[o].tx.open /\ preq[o].p = p].tx, p)
    ELSE db

\* Get runs m.DB.QueryRowContext, outside every transaction: at READ
\* COMMITTED it reads committed rows only
ReadView(db, p) == db

\* a synchronizer that only adds
DeleteNone(cur, S) == {}

\* DELETE ... WHERE client_id NOT IN (S): the rows that go
DeleteNotIn(cur, S) == cur \ S

\* the FOR KEY SHARE lock of an inserted project_client row on its client,
\* and the row lock on a deleted project_client row
ClientPinned(c) ==
    \E o \in Requests : preq[o].tx.open /\ c \in (preq[o].tx.ins \cup preq[o].tx.del)

\* ClientModel.GetClientByName: the client of that name, or 0 for
\* ErrRecordNotFound (a client's name is written as its id)
GetClientByName(cl, c) == IF cl[c] = "live" THEN c ELSE 0

\* an Insert that stores the project row without its client rows
InsertWithoutClients(n, S) ==
    /\ scenario = "project"
    /\ S # {}
    /\ \A c \in S : client[c] = "live"
    /\ \E p \in ProjIds :
        /\ project[p].state = "absent"
        /\ \A j \in ProjIds : j < p => project[j].state # "absent"
        /\ project' = [project EXCEPT ![p] = [state |-> "live", name |-> n,
                                               version |-> 1]]
    /\ UNCHANGED <<notProject, client, project_client, assignment, preq>>
    /\ plast' = NoCall

\* a validation that lets an empty client_names through
ValidateNothing(Sin) == TRUE

\* ValidateUpdatingProjectInput: client_names, when given, holds at least one
ValidateUpdatingProjectInput(Sin) == Sin.given => Sin.set # {}

\* INSERT INTO client ... RETURNING id: serial id
ClientInsert ==
    /\ scenario = "project"
    /\ \E c \in Clients :
        /\ client[c] = "absent"
        /\ \A j \in Clients : j < c => client[j] # "absent"
        /\ client' = [client EXCEPT ![c] = "live"]
    /\ UNCHANGED <<notProject, project, project_client, assignment, preq>>
    /\ plast' = NoCall

\* a DELETE of a client that leaves its project_client rows behind
ClientDeleteNoCascade(c) ==
    /\ scenario = "project"
    /\ client[c] = "live"
    /\ ~ClientPinned(c)
    /\ client' = [client EXCEPT ![c] = "deleted"]
    /\ UNCHANGED <<notProject, project, project_client, assignment, preq>>
    /\ plast' = NoCall

\* DELETE FROM client WHERE id = $1; project_client rows go with it
\* (ON DELETE CASCADE)
ClientDelete(c) ==
    /\ scenario = "project"
    /\ client[c] = "live"
    /\ ~ClientPinned(c)
    /\ client' = [client EXCEPT ![c] = "deleted"]
    /\ project_client' = {pc \in project_client : pc[2] # c}
    /\ UNCHANGED <<notProject, project, assignment, preq>>
    /\ plast' = NoCall

\* createProjectHandler and ProjectModel.Insert: the handler resolves every
\* client name, then one transaction inserts the project row (version 1) and
\* one project_client row per client; the handler passes no assignments
ProjectInsert(n, S) ==
    /\ scenario = "project"
    /\ S # {}
    /\ \A c \in S : client[c] = "live"
    /\ \E p \in ProjIds :
        /\ project[p].state = "absent"
        /\ \A j \in ProjIds : j < p => project[j].state # "absent"
        /\ project' = [project EXCEPT ![p] = [state |-> "live", name |-> n,
                                               version |-> 1]]
        /\ project_client' = project_client \cup {<<p, c>> : c \in S}
    /\ UNCHANGED <<notProject, client, assignment, preq>>
    /\ plast' = NoCall

\* the steps of ProjectModel.Insert that can fail: BeginTx, the INSERT of the
\* project row, of its client rows, of its assignment rows, and Commit
ProjectInsertSteps == {"begin", "row", "clients", "assignments", "commit"}

\* what ProjectModel.Insert returns when that step fails: the error, except
\* that a failed INSERT INTO assignment ends in "return nil"
ProjectInsertError(step) == IF step = "assignments" THEN "nil" ELSE "ErrStore"

\* ProjectModel.Insert, called with clients that exist and assignments A, when
\* one of its steps fails (the 3 s deadline passes, the connection drops, a
\* constraint is violated): the deferred Rollback discards what the
\* transaction wrote.  createProjectHandler passes no assignment and answers
\* an error 500.  The call shares nothing with a request in flight and is
\* taken when there is none
ProjectInsertFails(A, step) ==
    /\ scenario = "project"
    /\ \A r \in Requests : preq[r].pc = "idle"
    /\ \E c \in Clients : client[c] = "live"
    /\ step = "assignments" => A # {}
    /\ \E p \in ProjIds :
        /\ project[p].state = "absent"
        /\ \A j \in ProjIds : j < p => project[j].state # "absent"
        /\ plast' = [NoCall EXCEPT !.op = "Insert", !.p = p, !.handler = (A = {}),
                                   !.called = TRUE,
                                   !.A = [given |-> TRUE, set |-> A],
                                   !.fault = TRUE,
                                   !.err = ProjectInsertError(step),
                                   !.outcome = IF A # {} THEN "none"
                                               ELSE "server_error"]
    /\ UNCHANGED <<notProject, project, client, project_client, assignment, preq>>

\* a create handler that stores the project row before it validates the body
InsertBeforeValidate(Sin) ==
    /\ scenario = "project"
    /\ \A r \in Requests : preq[r].pc = "idle"
    /\ ~Sin.given \/ Sin.set = {}
    /\ \E p \in ProjIds :
        /\ project[p].state = "absent"
        /\ \A j \in ProjIds : j < p => project[j].state # "absent"
        /\ project' = [project EXCEPT ![p] = [state |-> "live", name |-> "a",
                                               version |-> 1]]
    /\ plast' = [NoCall EXCEPT !.op = "Create", !.handler = TRUE, !.Sin = Sin,
                               !.err = "validation",
                               !.outcome = "failed_validation"]
    /\ UNCHANGED <<notProject, client, project_client, assignment, preq>>

\* createProjectHandler with a body that fails ValidateProjectInputRequired
\* (no client_names) or ValidateProjectInputSemantic (client_names is empty):
\* the handler answers before it resolves a client name or calls Insert; it
\* shares nothing with a request in flight and is taken when there is none
ProjectCreateInvalid(Sin) ==
    /\ scenario = "project"
    /\ \A r \in Requests : preq[r].pc = "idle"
    /\ ~Sin.given \/ Sin.set = {}
    /\ plast' = [NoCall EXCEPT !.op = "Create", !.handler = TRUE, !.Sin = Sin,
                               !.err = "validation",
                               !.outcome = IF Sin.given THEN "failed_validation"
                                           ELSE "missing_required_fields"]
    /\ UNCHANGED <<notProject, project, client, project_client, assignment, preq>>

\* the store reads a request has issued when Update is called or the handler
\* answers without calling it: Project.Get, and in updateProjectHandler
\* GetClientByName once client_names has passed ValidateUpdatingProjectInput
ReadsIssued(q) ==
    {"Project.Get"}
    \cup IF q.handler /\ q.Sin.given /\ q.Sin.set # {}
            /\ ValidateUpdatingProjectInput(q.Sin)
         THEN {"Client.GetClientByName"} ELSE {}

\* showProjectHandler, and the first statement of updateProjectHandler
ProjectRead(r, p) ==
    /\ scenario = "project"
    /\ preq[r].pc = "idle"
    /\ LET g == ProjectGet(ReadView(ProjDb, p), p)
       IN /\ g.found
          /\ preq' = [preq EXCEPT ![r] = [IdleProjReq EXCEPT !.pc = "got", !.p = p,
                                                            !.seen = g]]
          /\ plast' = [NoCall EXCEPT !.op = "Get", !.p = p, !.before = g]
    /\ UNCHANGED <<notProject, project, client, project_client, assignment>>

\* the response of showProjectHandler has been written
ProjectRespond(r) ==
    /\ scenario = "project"
    /\ preq[r].pc = "got"
    /\ preq' = [preq EXCEPT ![r] = IdleProjReq]
    /\ UNCHANGED <<notProject, project, client, project_client, assignment>>
    /\ plast' = NoCall

\* the end of an Update call, with the committed tables it leaves
ProjectReturn(r, q, db, err, fault) ==
    /\ project' = db.project
    /\ project_client' = db.project_client
    /\ assignment' = db.assignment
    /\ preq' = [preq EXCEPT ![r] = IdleProjReq]
    /\ plast' = [op |-> "Update", p |-> q.p, handler |-> q.handler,
                 called |-> (err # "validation"), version |-> q.seen.version,
                 S |-> q.S, A |-> q.A, Sin |-> q.Sin,
                 before |-> ProjectGet(ProjDb, q.p), staged |-> q.tx,
                 fault |-> fault, err |-> err,
                 outcome |-> CASE err = "nil" -> "ok"
                               [] err = "ErrEditConflict" -> "edit_conflict"
                               [] err = "validation" -> "failed_validation"
                               [] OTHER -> "server_error",
                 reads |-> ReadsIssued(q)]
    /\ UNCHANGED <<notProject, client>>

\* BeginTx, then UPDATE project SET ..., version = version + 1
\* WHERE internal_id = $8 AND version = $9 RETURNING version;
\* sql.ErrNoRows becomes ErrEditConflict and the deferred Rollback runs
ProjectUpdateRow(r, q, n) ==
    /\ ~RowLocked(r, q.p)
    /\ project[q.p].version < MaxVersion
    /\ IF VersionMatches(project[q.p], q.seen.version)
       THEN /\ preq' = [preq EXCEPT ![r] = [q EXCEPT !.pc = "delc",
                   !.tx = [NoTx EXCEPT !.open = TRUE,
                              !.row = [state |-> "live", name |-> n,
                                       version |-> project[q.p].version + 1]]]]
            /\ UNCHANGED <<notProject, project, client, project_client, assignment>>
            /\ plast' = NoCall
       ELSE ProjectReturn(r, q, TxRollback(ProjDb, NoTx, q.p), "ErrEditConflict",
                          FALSE)

\* updateProjectHandler from the decoded input to the first statement of
\* Update: validate the input, lay it over the project that Get returned,
\* resolve client_names when given and keep the clients that Get returned
\* otherwise; Assignments is never set
ProjectPatch(r, n, Sin) ==
    /\ scenario = "project"
    /\ preq[r].pc = "got"
    /\ IF ~ValidateUpdatingProjectInput(Sin)
          \/ \E c \in Sin.set : GetClientByName(client, c) = 0
       THEN ProjectReturn(r, [preq[r] EXCEPT !.handler = TRUE, !.Sin = Sin],
                          ProjDb, "validation", FALSE)
       ELSE ProjectUpdateRow(r,
                [preq[r] EXCEPT !.handler = TRUE, !.Sin = Sin, !.A = NotGiven,
                    !.S = IF Sin.given
                          THEN {GetClientByName(client, c) : c \in Sin.set}
                          ELSE preq[r].seen.clients],
                n)

\* any other caller of ProjectModel.Update: the project as read, with the
\* client list and the assignment list the caller wants
ProjectCall(r, S, A) ==
    /\ scenario = "project"
    /\ preq[r].pc = "got"
    /\ ProjectUpdateRow(r, [preq[r] EXCEPT !.handler = FALSE, !.S = S, !.A = A],
                        preq[r].seen.name)

\* DELETE FROM project_client WHERE project_internal_id = $1
\* AND client_id NOT IN ($2, ...): with no client the statement reads
\* NOT IN () and the store rejects it
ProjectDeleteClients(r) ==
    /\ scenario = "project"
    /\ preq[r].pc = "delc"
    /\ IF preq[r].S = {}
       THEN ProjectReturn(r, preq[r], TxRollback(ProjDb, preq[r].tx, preq[r].p),
                          "ErrStore", FALSE)
       ELSE /\ preq' = [preq EXCEPT ![r].pc = "insc",
                   ![r].tx.del = DeleteNotIn(TxClients(ProjDb, preq[r].tx, preq[r].p),
                                            preq[r].S)]
            /\ UNCHANGED <<notProject, project, client, project_client, assignment>>
            /\ plast' = NoCall

\* INSERT INTO project_client without ON CONFLICT: a pair that is already
\* stored violates the primary key
InsertClientsOrFail(r) ==
    /\ scenario = "project"
    /\ preq[r].pc = "insc"
    /\ LET cur == TxClients(ProjDb, preq[r].tx, preq[r].p)
       IN IF preq[r].S \cap cur # {} \/ \E c \in preq[r].S : client[c] # "live"
          THEN ProjectReturn(r, preq[r], TxRollback(ProjDb, preq[r].tx, preq[r].p),
                             "ErrStore", FALSE)
          ELSE /\ preq' = [preq EXCEPT
                      ![r].pc = IF preq[r].A.given THEN "dela" ELSE "commit",
                      ![r].tx.ins = preq[r].S]
               /\ UNCHANGED <<notProject, project, client, project_client, assignment>>
               /\ plast' = NoCall

\* INSERT INTO project_client VALUES ($1, $2), ...
\* ON CONFLICT (project_internal_id, client_id) DO NOTHING; a client that
\* is gone violates the foreign key
ProjectInsertClients(r) ==
    /\ scenario = "project"
    /\ preq[r].pc = "insc"
    /\ LET new == preq[r].S \ TxClients(ProjDb, preq[r].tx, preq[r].p)
       IN IF \E c \in new : client[c] # "live"
          THEN ProjectReturn(r, preq[r], TxRollback(ProjDb, preq[r].tx, preq[r].p),
                             "ErrStore", FALSE)
          ELSE /\ preq' = [preq EXCEPT
                      ![r].pc = IF preq[r].A.given THEN "dela" ELSE "commit",
                      ![r].tx.ins = new]
               /\ UNCHANGED <<notProject, project, client, project_client, assignment>>
               /\ plast' = NoCall

\* if project.Assignments != nil: DELETE FROM assignment WHERE project_id = $1
ProjectDeleteAssignments(r) ==
    /\ scenario = "project"
    /\ preq[r].pc = "dela"
    /\ preq' = [preq EXCEPT ![r].pc = IF preq[r].A.set # {} THEN "insa" ELSE "commit",
                            ![r].tx.adel = TRUE]
    /\ UNCHANGED <<notProject, project, client, project_client, assignment>>
    /\ plast' = NoCall

\* if len(project.Assignments) != 0: INSERT INTO assignment VALUES ...
ProjectInsertAssignments(r) ==
    /\ scenario = "project"
    /\ preq[r].pc = "insa"
    /\ preq' = [preq EXCEPT ![r].pc = "commit", ![r].tx.ains = preq[r].A.set]
    /\ UNCHANGED <<notProject, project, client, project_client, assignment>>
    /\ plast' = NoCall

\* Commit issued as soon as the stale clients are deleted
CommitEarly(r) ==
    /\ scenario = "project"
    /\ preq[r].pc \in {"insc", "commit"}
    /\ ProjectReturn(r, preq[r], TxCommit(ProjDb, preq[r].tx, preq[r].p), "nil",
                     FALSE)

\* tx.Commit() returns nil
ProjectCommit(r) ==
    /\ scenario = "project"
    /\ preq[r].pc = "commit"
    /\ ProjectReturn(r, preq[r], TxCommit(ProjDb, preq[r].tx, preq[r].p), "nil",
                     FALSE)

\* a statement after the version guard, or Commit, fails (the 3 s deadline
\* passes, the connection drops): Update returns that error and the deferred
\* Rollback runs
ProjectStoreError(r) ==
    /\ scenario = "project"
    /\ preq[r].pc \in {"delc", "insc", "dela", "insa", "commit"}
    /\ ProjectReturn(r, preq[r], TxRollback(ProjDb, preq[r].tx, preq[r].p), "ErrStore",
                     TRUE)

Given(T) == {NotGiven} \cup {[given |-> TRUE, set |-> s] : s \in SUBSET T}

NextProject ==
    \/ ClientInsert
    \/ \E c \in Clients : ClientDelete(c)
    \/ \E n \in Names, S \in SUBSET Clients : ProjectInsert(n, S)
    \/ \E Sin \in Given(Clients) : ProjectCreateInvalid(Sin)
    \/ \E A \in SUBSET Users, step \in ProjectInsertSteps : ProjectInsertFails(A, step)
    \/ \E r \in Requests, p \in ProjIds : ProjectRead(r, p)
    \/ \E r \in Requests : ProjectRespond(r)
    \/ \E r \in Requests, n \in Names, Sin \in Given(Clients) : ProjectPatch(r, n, Sin)
    \/ \E r \in Requests, S \in SUBSET Clients, A \in Given(Users) : ProjectCall(r, S, A)
    \/ \E r \in Requests : ProjectDeleteClients(r)
    \/ \E r \in Requests : ProjectInsertClients(r)
    \/ \E r \in Requests : ProjectDeleteAssignments(r)
    \/ \E r \in Requests : ProjectInsertAssignments(r)
    \/ \E r \in Requests : ProjectCommit(r)
    \/ \E r \in Requests : ProjectStoreError(r)


\* ------------------------------------------------- timesheet and its joins
NoTimesheet == [state |-> "absent", user |-> 0, project |-> 0, client |-> 0,
                activity |-> 0, version |-> 0]
NoTsTx == [open |-> FALSE, row |-> NoTimesheet, project |-> 0, client |-> 0,
           activity |-> 0]
NoTsSnapshot == [row |-> NoTimesheet, project |-> {}, client |-> {}, appuser |-> {},
                 activity |-> {}]
IdleTsReq == [pc |-> "idle", t |-> 0, seen |-> NoTimesheet, want |-> NoTimesheet,
              tx |-> NoTsTx]
NoTsCall == [op |-> "none", t |-> 0, version |-> 0, want |-> NoTimesheet,
             before |-> NoTsSnapshot, staged |-> NoTsTx, fault |-> FALSE,
             err |-> "none", outcome |-> "none"]

\* the inputs of the timesheet handlers: 0 is a field left out of the body
TsInputs == [user : 0..NumRefs, project : 0..NumRefs, client : 0..NumRefs,
             activity : 0..NumRefs]

\* the bodies of PATCH /v1/timesheet/:id that are tried
TsFields == {"user", "project", "client", "activity"}
PatchBodies == {in \in TsInputs :
                   Cardinality({f \in TsFields : in[f] # 0}) <= MaxPatchFields}

\* the reference tables the timesheet handlers read; they do not change in
\* this scenario: every appuser, project, client and activity of Refs exists,
\* user u is assigned to project p and client c belongs to project p when
\* the id is not above p's
TsAssignment == {a \in Refs \X Refs : a[1] <= a[2]}
TsProjectClient == {pc \in Refs \X Refs : pc[2] <= pc[1]}

\* the committed timesheet tables, as one value
TsDb == [timesheet |-> timesheet, ts_project |-> ts_project, ts_client |-> ts_client,
         ts_appuser |-> ts_appuser, ts_activity |-> ts_activity]

JoinOf(tbl, t) == {j[2] : j \in {x \in tbl : x[1] = t}}

\* the timesheet row with the join rows that carry its id
TsSnapshot(db, t) ==
    [row |-> db.timesheet[t], project |-> JoinOf(db.ts_project, t),
     client |-> JoinOf(db.ts_client, t), appuser |-> JoinOf(db.ts_appuser, t),
     activity |-> JoinOf(db.ts_activity, t)]

\* ValidateTimesheetInputRequired: every reference is in the body
ValidateTimesheetInputRequired(in) ==
    in.user # 0 /\ in.project # 0 /\ in.client # 0 /\ in.activity # 0

\* ValidateTimesheetSemantic: user_id is not empty, the other ids are above 0
ValidateTimesheetSemantic(t) ==
    t.user # 0 /\ t.project > 0 /\ t.client > 0 /\ t.activity > 0

\* AssignmentModel.GetAllByProjectID and ValidateUserID: the user is assigned
\* to the project
ValidateUserID(asg, p, u) == \E a \in asg : a[2] = p /\ a[1] = u

\* ClientModel.GetAllByProjectID and ValidateClientID: the client is one of
\* the project's
ValidateClientID(pcl, p, c) == \E pc \in pcl : pc[1] = p /\ pc[2] = c

\* UPDATE timesheet_x SET x_id = $1 WHERE timesheet_id = $2
UpdateJoin(tbl, t, x) == {IF j[1] = t THEN <<t, x>> ELSE j : j \in tbl}

\* tx.Commit() of TimesheetModel.Update: the statements that ran take effect
TsTxCommit(db, tx, t) ==
    [timesheet |-> [db.timesheet EXCEPT ![t] = tx.row],
     ts_project |-> IF tx.project # 0 THEN UpdateJoin(db.ts_project, t, tx.project)
                    ELSE db.ts_project,
     ts_client |-> IF tx.client # 0 THEN UpdateJoin(db.ts_client, t, tx.client)
                   ELSE db.ts_client,
     ts_appuser |-> db.ts_appuser,
     ts_activity |-> IF tx.activity # 0 THEN UpdateJoin(db.ts_activity, t, tx.activity)
                     ELSE db.ts_activity]

\* defer tx.Rollback() of TimesheetModel.Update
TsTxRollback(db, tx, t) == db

\* the timesheet row written by an open transaction stays locked
TsLocked(r, t) == \E o \in Requests \ {r} : treq[o].tx.open /\ treq[o].t = t

\* createTimesheetHandler (the body carries a description) and
\* TimesheetModel.Insert: required fields, semantic validation, the four
\* references exist, the user is assigned to the project and the client is one
\* of the project's; then one transaction inserts the row (version 1) under a
\* fresh ULID and one row in each of the four join tables
TsCreate(in) ==
    /\ scenario = "timesheet"
    /\ ValidateTimesheetInputRequired(in)
    /\ ValidateTimesheetSemantic(in)
    /\ {in.user, in.project, in.client, in.activity} \subseteq Refs
    /\ ValidateUserID(TsAssignment, in.project, in.user)
    /\ ValidateClientID(TsProjectClient, in.project, in.client)
    /\ \E t \in TsIds :
        /\ timesheet[t].state = "absent"
        /\ \A j \in TsIds : j < t => timesheet[j].state # "absent"
        /\ timesheet' = [timesheet EXCEPT ![t] =
               [state |-> "live", user |-> in.user, project |-> in.project,
                client |-> in.client, activity |-> in.activity, version |-> 1]]
        /\ ts_client' = ts_client \cup {<<t, in.client>>}
        /\ ts_project' = ts_project \cup {<<t, in.project>>}
        /\ ts_appuser' = ts_appuser \cup {<<t, in.user>>}
        /\ ts_activity' = ts_activity \cup {<<t, in.activity>>}
        /\ tlast' = [NoTsCall EXCEPT !.op = "Insert", !.t = t, !.err = "nil",
                                     !.outcome = "ok"]
    /\ UNCHANGED <<notTimesheet, treq>>

\* the steps of TimesheetModel.Insert that can fail: BeginTx, the INSERT of
\* the timesheet row and of each join row, and Commit
TsInsertSteps == {"begin", "row", "client", "project", "appuser", "activity",
                  "commit"}

\* what TimesheetModel.Insert returns when that step fails: the error, except
\* that a failed BeginTx ends in "return nil"
TsInsertError(step) == IF step = "begin" THEN "nil" ELSE "ErrStore"

\* createTimesheetHandler with a valid body and TimesheetModel.Insert when one
\* of its steps fails: nothing is committed (the transaction ends with its
\* context); the handler answers 201 when Insert returns nil and 500
\* otherwise.  The call shares nothing with a request in flight and is taken
\* when there is none
TsInsertFails(step) ==
    /\ scenario = "timesheet"
    /\ \A r \in Requests : treq[r].pc = "idle"
    /\ \E t \in TsIds :
        /\ timesheet[t].state = "absent"
        /\ \A j \in TsIds : j < t => timesheet[j].state # "absent"
        /\ tlast' = [NoTsCall EXCEPT !.op = "Insert", !.t = t, !.fault = TRUE,
                                     !.err = TsInsertError(step),
                                     !.outcome = IF TsInsertError(step) = "nil"
                                                 THEN "ok" ELSE "server_error"]
    /\ UNCHANGED <<notTimesheet, timesheet, ts_project, ts_client, ts_appuser,
                   ts_activity, treq>>

\* deleteTimesheetHandler and TimesheetModel.Delete: DELETE FROM timesheet
\* WHERE id = $1; the join rows go with it (ON DELETE CASCADE)
TsDelete(t) ==
    /\ scenario = "timesheet"
    /\ timesheet[t].state = "live"
    /\ ~TsLocked(0, t)
    /\ timesheet' = [timesheet EXCEPT ![t].state = "deleted"]
    /\ ts_project' = {j \in ts_project : j[1] # t}
    /\ ts_client' = {j \in ts_client : j[1] # t}
    /\ ts_appuser' = {j \in ts_appuser : j[1] # t}
    /\ ts_activity' = {j \in ts_activity : j[1] # t}
    /\ tlast' = NoTsCall
    /\ UNCHANGED <<notTimesheet, treq>>

\* timesheet.client_id REFERENCES client(id) with no ON DELETE clause: a
\* client that a timesheet row names cannot be deleted
FkRestricts(ts, c) == \E t \in TsIds : ts[t].state = "live" /\ ts[t].client = c

\* deleteClientHandler and ClientModel.Delete for a client that a timesheet
\* names: DELETE FROM client WHERE id = $1 violates timesheet_client_id_fkey,
\* Delete returns that error and the handler answers 500; nothing is deleted
TsClientDelete(c) ==
    /\ scenario = "timesheet"
    /\ FkRestricts(timesheet, c)
    /\ \A t \in TsIds : ~TsLocked(0, t)
    /\ tlast' = [NoTsCall EXCEPT !.op = "DeleteClient", !.want.client = c,
                                 !.err = "ErrStore", !.outcome = "server_error"]
    /\ UNCHANGED <<notTimesheet, timesheet, ts_project, ts_client, ts_appuser,
                   ts_activity, treq>>

\* updateTimesheetHandler, first statement: InternalGet(id)
TsInternalGet(r, t) ==
    /\ scenario = "timesheet"
    /\ treq[r].pc = "idle"
    /\ timesheet[t].state = "live"
    /\ treq' = [treq EXCEPT ![r] = [IdleTsReq EXCEPT !.pc = "got", !.t = t,
                                                    !.seen = timesheet[t]]]
    /\ tlast' = NoTsCall
    /\ UNCHANGED <<notTimesheet, timesheet, ts_project, ts_client, ts_appuser,
                   ts_activity>>

\* the request ends before Update is called (the body cannot be decoded)
TsRespond(r) ==
    /\ scenario = "timesheet"
    /\ treq[r].pc = "got"
    /\ treq' = [treq EXCEPT ![r] = IdleTsReq]
    /\ tlast' = NoTsCall
    /\ UNCHANGED <<notTimesheet, timesheet, ts_project, ts_client, ts_appuser,
                   ts_activity>>

\* the end of an Update call, with the committed tables it leaves
TsReturn(r, q, db, err, fault) ==
    /\ timesheet' = db.timesheet
    /\ ts_project' = db.ts_project
    /\ ts_client' = db.ts_client
    /\ ts_appuser' = db.ts_appuser
    /\ ts_activity' = db.ts_activity
    /\ treq' = [treq EXCEPT ![r] = IdleTsReq]
    /\ tlast' = [op |-> "Update", t |-> q.t, version |-> q.seen.version,
                 want |-> q.want, before |-> TsSnapshot(TsDb, q.t),
                 staged |-> q.tx, fault |-> fault, err |-> err,
                 outcome |-> CASE err = "nil" -> "ok"
                               [] err = "ErrEditConflict" -> "edit_conflict"
                               [] err = "validation" -> "failed_validation"
                               [] OTHER -> "server_error"]
    /\ UNCHANGED notTimesheet

\* the fields of the body laid over the timesheet that InternalGet returned
Overlay(seen, in) ==
    [seen EXCEPT !.user = IF in.user # 0 THEN in.user ELSE @,
                 !.project = IF in.project # 0 THEN in.project ELSE @,
                 !.client = IF in.client # 0 THEN in.client ELSE @,
                 !.activity = IF in.activity # 0 THEN in.activity ELSE @]

\* updateTimesheetHandler from the decoded body to the first statement of
\* TimesheetModel.Update: overlay, validation, then BeginTx and UPDATE
\* timesheet SET appuser_id, project_id, client_id, activity_id, ...,
\* version = version + 1 WHERE id = $9 AND version = $10 RETURNING version;
\* sql.ErrNoRows becomes ErrEditConflict
TsPatch(r, in) ==
    /\ scenario = "timesheet"
    /\ treq[r].pc = "got"
    /\ LET q == [treq[r] EXCEPT !.want = Overlay(treq[r].seen, in)]
       IN IF ~(/\ ValidateTimesheetSemantic(q.want)
               /\ ValidateUserID(TsAssignment, q.want.project, q.want.user)
               /\ ValidateClientID(TsProjectClient, q.want.project, q.want.client))
          THEN TsReturn(r, q, TsDb, "validation", FALSE)
          ELSE /\ ~TsLocked(r, q.t)
               /\ timesheet[q.t].version < MaxVersion
               /\ IF VersionMatches(timesheet[q.t], q.seen.version)
                  THEN /\ treq' = [treq EXCEPT ![r] = [q EXCEPT !.pc = "project",
                              !.tx = [NoTsTx EXCEPT !.open = TRUE,
                                  !.row = [q.want EXCEPT
                                      !.version = timesheet[q.t].version + 1]]]]
                       /\ tlast' = NoTsCall
                       /\ UNCHANGED <<notTimesheet, timesheet, ts_project, ts_client,
                                      ts_appuser, ts_activity>>
                  ELSE TsReturn(r, q, TsTxRollback(TsDb, NoTsTx, q.t),
                                "ErrEditConflict", FALSE)

\* UPDATE timesheet_project SET project_id = $1 WHERE timesheet_id = $2
TsUpdateProject(r) ==
    /\ scenario = "timesheet"
    /\ treq[r].pc = "project"
    /\ treq' = [treq EXCEPT ![r].pc = "client",
                            ![r].tx.project = treq[r].want.project]
    /\ tlast' = NoTsCall
    /\ UNCHANGED <<notTimesheet, timesheet, ts_project, ts_client, ts_appuser,
                   ts_activity>>

\* UPDATE timesheet_client SET client_id = $1 WHERE timesheet_id = $2
TsUpdateClient(r) ==
    /\ scenario = "timesheet"
    /\ treq[r].pc = "client"
    /\ treq' = [treq EXCEPT ![r].pc = "activity",
                            ![r].tx.client = treq[r].want.client]
    /\ tlast' = NoTsCall
    /\ UNCHANGED <<notTimesheet, timesheet, ts_project, ts_client, ts_appuser,
                   ts_activity>>

\* UPDATE timesheet_activity SET activity_id = $1 WHERE timesheet_id = $2;
\* no statement of Update writes timesheet_appuser
TsUpdateActivity(r) ==
    /\ scenario = "timesheet"
    /\ treq[r].pc = "activity"
    /\ treq' = [treq EXCEPT ![r].pc = "commit",
                            ![r].tx.activity = treq[r].want.activity]
    /\ tlast' = NoTsCall
    /\ UNCHANGED <<notTimesheet, timesheet, ts_project, ts_client, ts_appuser,
                   ts_activity>>

\* tx.Commit() returns nil
TsCommit(r) ==
    /\ scenario = "timesheet"
    /\ treq[r].pc = "commit"
    /\ TsReturn(r, treq[r], TsTxCommit(TsDb, treq[r].tx, treq[r].t), "nil", FALSE)

\* a statement after the version guard, or Commit, fails: Update returns
\* that error and the deferred Rollback runs
TsStoreError(r) ==
    /\ scenario = "timesheet"
    /\ treq[r].pc \in {"project", "client", "activity", "commit"}
    /\ TsReturn(r, treq[r], TsTxRollback(TsDb, treq[r].tx, treq[r].t), "ErrStore",
                TRUE)

NextTimesheet ==
    \/ \E in \in TsInputs : TsCreate(in)
    \/ \E step \in TsInsertSteps : TsInsertFails(step)
    \/ \E t \in TsIds : TsDelete(t)
    \/ \E c \in Refs : TsClientDelete(c)
    \/ \E r \in Requests, t \in TsIds : TsInternalGet(r, t)
    \/ \E r \in Requests : TsRespond(r)
    \/ \E r \in Requests, in \in PatchBodies : TsPatch(r, in)
    \/ \E r \in Requests : TsUpdateProject(r)
    \/ \E r \in Requests : TsUpdateClient(r)
    \/ \E r \in Requests : TsUpdateActivity(r)
    \/ \E r \in Requests : TsCommit(r)
    \/ \E r \in Requests : TsStoreError(r)

\* ------------------------------- timesheet handlers and changing references
IdleRefReq == [pc |-> "idle", kind |-> "none", t |-> 0, seen |-> NoTimesheet,
               want |-> NoTimesheet]

\* the reference rows that have been deleted since the server started
RefChanges ==
    Cardinality(TsAssignment \ refs.assignment)
    + Cardinality(TsProjectClient \ refs.project_client)

\* updateProjectHandler of another request replaces a project's assignments:
\* DELETE FROM assignment WHERE project_id = $1 takes this row away
RefUnassign(a) ==
    /\ scenario = "reference"
    /\ a \in refs.assignment
    /\ RefChanges < MaxRefChanges
    /\ refs' = [refs EXCEPT !.assignment = @ \ {a}]
    /\ UNCHANGED <<notReference, timesheet, ts_project, ts_client, ts_appuser,
                   ts_activity, breq>>

\* updateProjectHandler of another request replaces a project's clients:
\* DELETE FROM project_client ... NOT IN (...) takes this row away
RefDissociate(pc) ==
    /\ scenario = "reference"
    /\ pc \in refs.project_client
    /\ RefChanges < MaxRefChanges
    /\ refs' = [refs EXCEPT !.project_client = @ \ {pc}]
    /\ UNCHANGED <<notReference, timesheet, ts_project, ts_client, ts_appuser,
                   ts_activity, breq>>

\* createTimesheetHandler up to its call of Insert: required fields, semantic
\* validation, the four references exist, Assignment.GetAllByProjectID and
\* ValidateUserID, Client.GetAllByProjectID and ValidateClientID; each read is
\* a statement of its own, outside any transaction.  Two timesheet handlers
\* side by side are the timesheet scenario's matter: here a handler starts
\* when no other is in flight
RefCreateCheck(r, in) ==
    /\ scenario = "reference"
    /\ \A o \in Requests : breq[o].pc = "idle"
    /\ \E t \in TsIds : timesheet[t].state = "absent"
    /\ ValidateTimesheetInputRequired(in)
    /\ ValidateTimesheetSemantic(in)
    /\ {in.user, in.project, in.client, in.activity} \subseteq Refs
    /\ ValidateUserID(refs.assignment, in.project, in.user)
    /\ ValidateClientID(refs.project_client, in.project, in.client)
    /\ breq' = [breq EXCEPT ![r] = [IdleRefReq EXCEPT !.pc = "checked",
               !.kind = "create",
               !.want = [state |-> "live", user |-> in.user, project |-> in.project,
                         client |-> in.client, activity |-> in.activity,
                         version |-> 1]]]
    /\ UNCHANGED <<notReference, timesheet, ts_project, ts_client, ts_appuser,
                   ts_activity, refs>>

\* TimesheetModel.Insert commits: the row (version 1) and one row in each join
\* table; no statement of it reads assignment or project_client
RefCreateInsert(r) ==
    /\ scenario = "reference"
    /\ breq[r].pc = "checked"
    /\ breq[r].kind = "create"
    /\ \E t \in TsIds :
        /\ timesheet[t].state = "absent"
        /\ \A j \in TsIds : j < t => timesheet[j].state # "absent"
        /\ timesheet' = [timesheet EXCEPT ![t] = breq[r].want]
        /\ ts_client' = ts_client \cup {<<t, breq[r].want.client>>}
        /\ ts_project' = ts_project \cup {<<t, breq[r].want.project>>}
        /\ ts_appuser' = ts_appuser \cup {<<t, breq[r].want.user>>}
        /\ ts_activity' = ts_activity \cup {<<t, breq[r].want.activity>>}
    /\ breq' = [breq EXCEPT ![r] = IdleRefReq]
    /\ UNCHANGED <<notReference, refs>>

\* updateTimesheetHandler up to its call of Update: InternalGet, the body laid
\* over the row, semantic validation, Assignment.GetAllByProjectID and
\* ValidateUserID, Client.GetAllByProjectID and ValidateClientID
RefPatchCheck(r, t, in) ==
    /\ scenario = "reference"
    /\ \A o \in Requests : breq[o].pc = "idle"
    /\ timesheet[t].state = "live"
    /\ timesheet[t].version < MaxVersion
    /\ LET want == Overlay(timesheet[t], in)
       IN /\ ValidateTimesheetSemantic(want)
          /\ ValidateUserID(refs.assignment, want.project, want.user)
          /\ ValidateClientID(refs.project_client, want.project, want.client)
          /\ breq' = [breq EXCEPT ![r] = [pc |-> "checked", kind |-> "update",
                                          t |-> t, seen |-> timesheet[t],
                                          want |-> want]]
    /\ UNCHANGED <<notReference, timesheet, ts_project, ts_client, ts_appuser,
                   ts_activity, refs>>

\* TimesheetModel.Update from BeginTx to Commit, taken as one step (its
\* statements read neither assignment nor project_client): the version guard,
\* then the three join tables; a stale version ends in ErrEditConflict
RefPatchUpdate(r) ==
    /\ scenario = "reference"
    /\ breq[r].pc = "checked"
    /\ breq[r].kind = "update"
    /\ LET q == breq[r]
           tx == [open |-> TRUE,
                  row |-> [q.want EXCEPT !.version = q.seen.version + 1],
                  project |-> q.want.project, client |-> q.want.client,
                  activity |-> q.want.activity]
           db == IF VersionMatches(timesheet[q.t], q.seen.version)
                 THEN TsTxCommit(TsDb, tx, q.t)
                 ELSE TsTxRollback(TsDb, tx, q.t)
       IN /\ timesheet' = db.timesheet
          /\ ts_project' = db.ts_project
          /\ ts_client' = db.ts_client
          /\ ts_appuser' = db.ts_appuser
          /\ ts_activity' = db.ts_activity
    /\ breq' = [breq EXCEPT ![r] = IdleRefReq]
    /\ UNCHANGED <<notReference, refs>>

NextReference ==
    \/ \E a \in TsAssignment : RefUnassign(a)
    \/ \E pc \in TsProjectClient : RefDissociate(pc)
    \/ \E r \in Requests, in \in TsInputs : RefCreateCheck(r, in)
    \/ \E r \in Requests : RefCreateInsert(r)
    \/ \E r \in Requests, t \in TsIds, in \in PatchBodies : RefPatchCheck(r, t, in)
    \/ \E r \in Requests : RefPatchUpdate(r)

\* ------------------------------------------- timesheets and their minutes
SheetIds == 1..NumSheets
WorkDates == 1..NumDates

\* the work_minutes that request bodies carry
MinuteChoices == {0, DayMinutes \div 2, DayMinutes, DayMinutes + 1}

\* the description of a request body: given is FALSE when the field is
\* left out (TimesheetInput.Description is nil)
DescInputs == {[given |-> FALSE, text |-> ""], [given |-> TRUE, text |-> ""],
               [given |-> TRUE, text |-> "a"]}

NoSheet == [state |-> "absent", user |-> 0, date |-> 0, minutes |-> 0,
            description |-> ""]
NoSheetCall == [op |-> "none", described |-> FALSE, valid |-> FALSE,
                outcome |-> "none"]

\* ValidateTimesheetSemantic on work_minutes: above zero, at most 1440
ValidateWorkMinutes(m) == m > 0 /\ m <= DayMinutes

\* InternalGetAll(userID, workDate) and the loop of ValidateTotalMinutes: the
\* minutes of the user's timesheets of that date, added up
TotalMinutes(w, u, d) ==
    LET sum[i \in 0..NumSheets] ==
            IF i = 0 THEN 0
            ELSE sum[i - 1] + (IF /\ w[i].state = "live"
                                  /\ w[i].user = u
                                  /\ w[i].date = d
                               THEN w[i].minutes ELSE 0)
    IN sum[NumSheets]

\* createTimesheetHandler and TimesheetModel.Insert, for the minutes and the
\* description (the other required fields are in the body).  Right after
\* readJSON the handler runs
\*     if input.Description == nil { *input.Description = "" }
\* which writes through the nil pointer: the goroutine panics and the
\* request ends there.  Otherwise the body is validated field by field
\* (ValidateTimesheetSemantic) and the row is inserted; the handler calls
\* neither InternalGetAll nor ValidateTotalMinutes
SheetCreate(u, d, m, desc) ==
    /\ scenario = "minutes"
    /\ \E t \in SheetIds :
        /\ worked[t].state = "absent"
        /\ \A j \in SheetIds : j < t => worked[j].state # "absent"
        /\ worked' = IF desc.given /\ ValidateWorkMinutes(m)
                     THEN [worked EXCEPT ![t] =
                              [state |-> "live", user |-> u, date |-> d,
                               minutes |-> m, description |-> desc.text]]
                     ELSE worked
    /\ wlast' = [op |-> "create", described |-> desc.given,
                 valid |-> ValidateWorkMinutes(m),
                 outcome |-> IF ~desc.given THEN "panic"
                             ELSE IF ValidateWorkMinutes(m) THEN "created"
                             ELSE "failed_validation"]
    /\ UNCHANGED notMinutes

\* updateTimesheetHandler and TimesheetModel.Update, for the minutes: the
\* body's work_minutes is laid over the row, validated the same way and
\* written
SheetPatch(t, m) ==
    /\ scenario = "minutes"
    /\ worked[t].state = "live"
    /\ worked' = IF ValidateWorkMinutes(m) THEN [worked EXCEPT ![t].minutes = m]
                 ELSE worked
    /\ wlast' = [op |-> "update", described |-> FALSE,
                 valid |-> ValidateWorkMinutes(m),
                 outcome |-> IF ValidateWorkMinutes(m) THEN "ok"
                             ELSE "failed_validation"]
    /\ UNCHANGED notMinutes

NextMinutes ==
    \/ \E u \in Refs, d \in WorkDates, m \in MinuteChoices, desc \in DescInputs :
          SheetCreate(u, d, m, desc)
    \/ \E t \in SheetIds, m \in MinuteChoices : SheetPatch(t, m)

\* ------------------------------------- deleting a project and its objects
ObjKeys == 1..NumObjects

IdleDelReq == [pc |-> "idle", listed |-> {}, before |-> [k \in ObjKeys |-> "gone"],
               alone |-> FALSE]

\* s3action.ListObjects: the keys under the prefix that have a current version
ListObjects(o) == {k \in ObjKeys : o[k] = "present"}

\* the identifiers that deleteProjectHandler builds with Key: &fileName in its
\* range loop: one per key when the loop variable is per iteration, the last
\* key every time when it is shared (the language version of the build
\* decides)
ObjectIdentifiers(K) ==
    {K} \cup {{k} : k \in {j \in K : \A i \in K : i <= j}}

\* s3action.DeleteObjects on a versioned bucket: each named object gets a
\* delete marker
DeleteObjects(o, K) ==
    [k \in ObjKeys |-> IF k \in K /\ o[k] = "present" THEN "marked" ELSE o[k]]

\* s3action.RestoreDeletedObjects: every delete marker under the prefix is
\* removed
RestoreDeletedObjects(o) ==
    [k \in ObjKeys |-> IF o[k] = "marked" THEN "present" ELSE o[k]]

\* s3action.PermanentlyDeleteObjects: every version and every delete marker
\* under the prefix is removed
PermanentlyDeleteObjects(o) == [k \in ObjKeys |-> "gone"]

\* the end of a Delete call
DeleteReturn(r, err) ==
    /\ dreq' = [dreq EXCEPT ![r] = IdleDelReq]
    /\ dlast' = err

\* deleteProjectHandler up to the first statement of ProjectModel.Delete:
\* Get finds the project, ListObjects lists its objects, BeginTx
DeleteBegin(r) ==
    /\ scenario = "storage"
    /\ dreq[r].pc = "idle"
    /\ srow = "live"
    /\ dreq' = [o \in Requests |->
                 IF o = r
                 THEN [pc |-> "begun", listed |-> ListObjects(objs), before |-> objs,
                       alone |-> \A x \in Requests : dreq[x].pc = "idle"]
                 ELSE [dreq[o] EXCEPT !.alone = FALSE]]
    /\ dlast' = "none"
    /\ UNCHANGED <<notStorage, srow, objs>>

\* s3action.DeleteObjects returns nil
DeleteMark(r, K) ==
    /\ scenario = "storage"
    /\ dreq[r].pc = "begun"
    /\ K \in ObjectIdentifiers(dreq[r].listed)
    /\ objs' = DeleteObjects(objs, K)
    /\ dreq' = [dreq EXCEPT ![r].pc = "marked"]
    /\ dlast' = "none"
    /\ UNCHANGED <<notStorage, srow>>

\* s3action.DeleteObjects returns an error after it has marked the objects
\* of M; RestoreDeletedObjects runs, and Delete returns its error when it
\* fails and the error of DeleteObjects otherwise
DeleteMarkFails(r, M, restored) ==
    /\ scenario = "storage"
    /\ dreq[r].pc = "begun"
    /\ M \subseteq dreq[r].listed
    /\ objs' = IF restored THEN RestoreDeletedObjects(DeleteObjects(objs, M))
               ELSE DeleteObjects(objs, M)
    /\ DeleteReturn(r, "ErrStore")
    /\ UNCHANGED <<notStorage, srow>>

\* DELETE FROM project WHERE internal_id = $1 inside the transaction (it
\* waits while another transaction holds the row): with no row affected
\* Delete returns ErrRecordNotFound; otherwise PermanentlyDeleteObjects runs,
\* its error dropped (purged is FALSE when it could not list the versions)
DeleteRow(r, purged) ==
    /\ scenario = "storage"
    /\ dreq[r].pc = "marked"
    /\ \A o \in Requests \ {r} : dreq[o].pc # "deleted"
    /\ IF srow = "live"
       THEN /\ objs' = IF purged THEN PermanentlyDeleteObjects(objs) ELSE objs
            /\ dreq' = [dreq EXCEPT ![r].pc = "deleted"]
            /\ dlast' = "none"
       ELSE /\ objs' = objs
            /\ DeleteReturn(r, "ErrRecordNotFound")
    /\ UNCHANGED <<notStorage, srow>>

\* the DELETE fails (the 3 s deadline passes, the connection drops);
\* RestoreDeletedObjects runs and Delete returns an error
DeleteRowFails(r, restored) ==
    /\ scenario = "storage"
    /\ dreq[r].pc = "marked"
    /\ objs' = IF restored THEN RestoreDeletedObjects(objs) ELSE objs
    /\ DeleteReturn(r, "ErrStore")
    /\ UNCHANGED <<notStorage, srow>>

\* tx.Commit() returns nil: the project row is gone, and its join rows with
\* it (ON DELETE CASCADE)
DeleteCommit(r) ==
    /\ scenario = "storage"
    /\ dreq[r].pc = "deleted"
    /\ srow' = "deleted"
    /\ DeleteReturn(r, "nil")
    /\ UNCHANGED <<notStorage, objs>>

\* tx.Commit() fails: Delete returns the error and the deferred Rollback
\* keeps the project row
DeleteCommitFails(r) ==
    /\ scenario = "storage"
    /\ dreq[r].pc = "deleted"
    /\ DeleteReturn(r, "ErrStore")
    /\ UNCHANGED <<notStorage, srow, objs>>

NextStorage ==
    \/ \E r \in Requests : DeleteBegin(r)
    \/ \E r \in Requests, K \in SUBSET ObjKeys : DeleteMark(r, K)
    \/ \E r \in Requests, M \in SUBSET ObjKeys, restored \in BOOLEAN :
          DeleteMarkFails(r, M, restored)
    \/ \E r \in Requests, purged \in BOOLEAN : DeleteRow(r, purged)
    \/ \E r \in Requests, restored \in BOOLEAN : DeleteRowFails(r, restored)
    \/ \E r \in Requests : DeleteCommit(r)
    \/ \E r \in Requests : DeleteCommitFails(r)

\* ---------------------------------------------------- activating a user
TokenIds == 1..NumTokens

IdleActReq == [pc |-> "idle", token |-> 0, version |-> 0, outcome |-> "none"]

\* activateUserHandler, first statement: GetForToken(ScopeActivation, token)
\* joins appuser with the stored tokens; ErrRecordNotFound is answered 422
\* "invalid or expired activation token"
ActivateGet(r, tk) ==
    /\ scenario = "activation"
    /\ areq[r].pc = "idle"
    /\ areq' = [areq EXCEPT ![r] =
           IF tk \in tokens
           THEN [pc |-> "got", token |-> tk, version |-> auser.version,
                 outcome |-> "none"]
           ELSE [pc |-> "done", token |-> tk, version |-> 0,
                 outcome |-> "failed_validation"]]
    /\ UNCHANGED <<notActivation, auser, tokens, activations>>

\* user.Activated = true and UserModel.Update: UPDATE appuser SET ...,
\* activated = $5, version = version + 1 WHERE id = $6 AND version = $7;
\* sql.ErrNoRows becomes ErrEditConflict, answered 409
ActivateUpdate(r) ==
    /\ scenario = "activation"
    /\ areq[r].pc = "got"
    /\ IF auser.version = areq[r].version
       THEN /\ auser' = [activated |-> TRUE, version |-> auser.version + 1]
            /\ areq' = [areq EXCEPT ![r].pc = "updated"]
       ELSE /\ auser' = auser
            /\ areq' = [areq EXCEPT ![r].pc = "done",
                                    ![r].outcome = "edit_conflict"]
    /\ UNCHANGED <<notActivation, tokens, activations>>

\* Token.DeleteAllForUser(ScopeActivation, user.ID), a statement of its own
\* after Update has returned, and the 200 answer
ActivateDeleteTokens(r) ==
    /\ scenario = "activation"
    /\ areq[r].pc = "updated"
    /\ tokens' = {}
    /\ areq' = [areq EXCEPT ![r].pc = "done", ![r].outcome = "ok"]
    /\ activations' = [activations EXCEPT ![areq[r].token] = @ + 1]
    /\ UNCHANGED <<notActivation, auser>>

\* the response has been written
ActivateRespond(r) ==
    /\ scenario = "activation"
    /\ areq[r].pc = "done"
    /\ areq' = [areq EXCEPT ![r] = IdleActReq]
    /\ UNCHANGED <<notActivation, auser, tokens, activations>>

NextActivation ==
    \/ \E r \in Requests, tk \in TokenIds : ActivateGet(r, tk)
    \/ \E r \in Requests : ActivateUpdate(r)
    \/ \E r \in Requests : ActivateDeleteTokens(r)
    \/ \E r \in Requests : ActivateRespond(r)

\* ------------------------------------------------------- specifications
vars == <<scenario, entity, row, commits, rreq, project, client, project_client,
          assignment, preq, plast, timesheet, ts_project, ts_client, ts_appuser,
          ts_activity, treq, tlast, refs, breq, worked, wlast, srow, objs, dreq,
          dlast, auser, tokens, areq, activations>>

\* the server has started on an empty database
Init ==
    /\ scenario \in Scenarios
    /\ entity \in (IF scenario = "row" THEN RowEntities ELSE {"role"})
    /\ row = [id \in RowIds |-> AbsentRow]
    /\ commits = [id \in RowIds |-> 0]
    /\ rreq = [r \in Requests |-> IdleRowReq]
    /\ project = [p \in ProjIds |-> NoProject]
    /\ client = [c \in Clients |-> "absent"]
    /\ project_client = {}
    /\ assignment = {}
    /\ preq = [r \in Requests |-> IdleProjReq]
    /\ plast = NoCall
    /\ timesheet = [t \in TsIds |-> NoTimesheet]
    /\ ts_project = {}
    /\ ts_client = {}
    /\ ts_appuser = {}
    /\ ts_activity = {}
    /\ treq = [r \in Requests |-> IdleTsReq]
    /\ tlast = NoTsCall
    /\ refs = [assignment |-> TsAssignment, project_client |-> TsProjectClient]
    /\ breq = [r \in Requests |-> IdleRefReq]
    /\ worked = [t \in SheetIds |-> NoSheet]
    /\ wlast = NoSheetCall
    /\ srow = "live"
    /\ objs = [k \in ObjKeys |-> "present"]
    /\ dreq = [r \in Requests |-> IdleDelReq]
    /\ dlast = "none"
    /\ auser = [activated |-> FALSE, version |-> 1]
    /\ tokens = TokenIds
    /\ areq = [r \in Requests |-> IdleActReq]
    /\ activations = [tk \in TokenIds |-> 0]

Next ==
    \/ NextRow
    \/ NextProject
    \/ NextTimesheet
    \/ NextReference
    \/ NextMinutes
    \/ NextStorage
    \/ NextActivation

\* every table
Spec == Init /\ [][Next]_vars

InitRow == scenario = "row" /\ Init

\* the single-statement tables
SpecRow == InitRow /\ [][NextRow]_vars

InitProject == scenario = "project" /\ Init

\* Project, Client and the join tables
SpecProject == InitProject /\ [][NextProject]_vars

InitTimesheet == scenario = "timesheet" /\ Init

\* Timesheet and its four join tables
SpecTimesheet == InitTimesheet /\ [][NextTimesheet]_vars

InitReference == scenario = "reference" /\ Init

\* the timesheet handlers while assignments and project clients change
SpecReference == InitReference /\ [][NextReference]_vars

InitMinutes == scenario = "minutes" /\ Init

\* the timesheet handlers and the minutes worked in a day
SpecMinutes == InitMinutes /\ [][NextMinutes]_vars

InitStorage == scenario = "storage" /\ Init

\* deleting a project whose files are in object storage
SpecStorage == InitStorage /\ [][NextStorage]_vars

InitActivation == scenario = "activation" /\ Init

\* a registered user with activation tokens, and the activation requests
SpecActivation == InitActivation /\ [][NextActivation]_vars

\* ------------------------------------------------------------ properties
\* an update request of the row scenario whose handler has called Update
RowCalled(q) == q.pc = "done" /\ q.stored # AbsentRow

\* the Update call of the project scenario that has just returned
ProjectReturned == plast.op = "Update" /\ plast.called

\* the Update call of the timesheet scenario that has just returned
TsReturned == tlast.op = "Update" /\ tlast.err # "validation"

\* C1: when two Updates of the same row start from the same version and run
\* concurrently (both handlers have read the row before either writes) and
\* one of them commits, the other returns ErrEditConflict
C1_OneUpdateWins ==
    \A r \in Requests, o \in Requests :
        (/\ RowCalled(rreq[r]) /\ RowCalled(rreq[o])
         /\ o \in rreq[r].rivals
         /\ rreq[o].id = rreq[r].id
         /\ rreq[o].seen.version = rreq[r].seen.version
         /\ rreq[r].err = "nil")
        => rreq[o].err = "ErrEditConflict"

\* C2: an Update whose version differs from the stored row's version returns
\* ErrEditConflict and leaves the primary row and its join rows as they were
C2_StaleVersionRejected ==
    /\ \A r \in Requests :
        (/\ RowCalled(rreq[r])
         /\ rreq[r].stored.state = "live"
         /\ rreq[r].stored.version # rreq[r].seen.version)
        => rreq[r].err = "ErrEditConflict" /\ ~rreq[r].changed
    /\ (/\ ProjectReturned
        /\ plast.before.found
        /\ plast.before.version # plast.version)
       => /\ plast.err = "ErrEditConflict"
          /\ ProjectGet(ProjDb, plast.p) = plast.before
    /\ (/\ TsReturned
        /\ tlast.before.row.state = "live"
        /\ tlast.before.row.version # tlast.version)
       => /\ tlast.err = "ErrEditConflict"
          /\ TsSnapshot(TsDb, tlast.t) = tlast.before

\* a Project update read at version 1 is submitted when the row has reached
\* version 2, asking for other clients than the stored ones
C2_Witness ==
    /\ ProjectReturned
    /\ plast.version = 1
    /\ plast.before.version = 2
    /\ plast.S # plast.before.clients
    /\ plast.err = "ErrEditConflict"

\* C3: the version of every stored row is 1 plus the number of Updates that
\* committed on it
C3_VersionCountsUpdates ==
    \A id \in RowIds : Live(row, id) => row[id].version = 1 + commits[id]

EmptyClientList ==
    /\ plast.op = "Update"
    /\ IF plast.handler THEN plast.Sin.given /\ plast.Sin.set = {}
       ELSE plast.S = {}
    /\ plast.err # "ErrEditConflict"
    /\ ~plast.fault

C6_OmittedKeepsAssociations ==
    (/\ ProjectReturned
     /\ plast.handler
     /\ ~plast.Sin.given
     /\ plast.err # "ErrEditConflict"
     /\ ~plast.fault
     /\ \A c \in plast.S : client[c] = "live")
    => /\ plast.err = "nil"
       /\ ProjectGet(ProjDb, plast.p).version = plast.version + 1
       /\ ClientsOf(project_client, plast.p) = plast.before.clients
       /\ AssignedTo(assignment, plast.p) = plast.before.assignments

\* C7: a step of an Update call other than its successful Commit leaves the
\* committed primary row and join tables as they are, so an Update that fails
\* after the version guard commits nothing
C7_FailureRollsBack ==
    [][/\ (preq' # preq /\ ~(plast'.op = "Update" /\ plast'.err = "nil"))
          => UNCHANGED <<project, project_client, assignment>>
       /\ (treq' # treq /\ ~(tlast'.op = "Update" /\ tlast'.err = "nil"))
          => UNCHANGED <<timesheet, ts_project, ts_client, ts_appuser,
                         ts_activity>>]_vars

\* a Project Update has failed after its DELETE and INSERT of client rows ran
C7_Witness ==
    /\ ProjectReturned
    /\ plast.fault
    /\ plast.staged.del # {}
    /\ plast.staged.ins # {}
    /\ ProjectGet(ProjDb, plast.p) = plast.before

\* C8: a Get that returns while an Update of the same project is between its
\* version guard and its Commit returns the project as that Update read it:
\* the old version, name and assignments, and the old clients (less those
\* whose client was deleted meanwhile)
C8_GetNeverMixed ==
    plast.op = "Get"
    => \A u \in Requests :
        (preq[u].tx.open /\ preq[u].p = plast.p)
        => /\ plast.before.version = preq[u].seen.version
           /\ plast.before.name = preq[u].seen.name
           /\ plast.before.assignments = preq[u].seen.assignments
           /\ plast.before.clients \subseteq preq[u].seen.clients
           /\ \A c \in preq[u].seen.clients \ plast.before.clients :
                  client[c] = "deleted"

\* a Get returns while an Update has bumped the version and replaced client
\* rows without having committed
C8_Witness ==
    /\ plast.op = "Get"
    /\ \E u \in Requests :
        /\ preq[u].tx.open
        /\ preq[u].p = plast.p
        /\ preq[u].tx.del # {}
        /\ preq[u].tx.ins # {}
        /\ preq[u].tx.row.name # plast.before.name

\* C9: right after a Timesheet Insert or Update commits, each of the four
\* join tables holds exactly one row for the timesheet, with the id stored in
\* the timesheet's row
C9_JoinRowsMirrorTimesheet ==
    (tlast.op \in {"Insert", "Update"} /\ tlast.err = "nil" /\ ~tlast.fault)
    => LET g == TsSnapshot(TsDb, tlast.t)
       IN /\ g.project = {g.row.project}
          /\ g.client = {g.row.client}
          /\ g.appuser = {g.row.user}
          /\ g.activity = {g.row.activity}

SameSetAgain ==
    /\ ProjectReturned
    /\ ~plast.fault
    /\ plast.before.found
    /\ plast.before.version = plast.version
    /\ plast.S # {}
    /\ plast.before.clients = plast.S

\* C12: an Update that asks for the client set the previous Update left, at
\* the version the previous Update returned, commits; it deletes and inserts
\* no project_client row, and the project's client rows are the same set
\* after it as before it
C12_ReconcileIsIdempotent ==
    SameSetAgain
    => /\ plast.err = "nil"
       /\ plast.staged.del = {}
       /\ plast.staged.ins = {}
       /\ ClientsOf(project_client, plast.p) = plast.S
       /\ ProjectGet(ProjDb, plast.p).version = plast.version + 1

\* the second of two Updates to the same two clients: the first took the
\* project from version 1 to 2, the second commits at version 3
C12_Witness ==
    /\ SameSetAgain
    /\ plast.S = Clients
    /\ plast.version = 2
    /\ plast.err = "nil"
    /\ ClientsOf(project_client, plast.p) = Clients

\* C13: Delete of an existing primary row succeeds, also when a timesheet
\* names that row: here, the Delete of a client that a timesheet names
C13_DeleteSucceeds ==
    tlast.op = "DeleteClient"
    => /\ tlast.err = "nil"
       /\ tlast.outcome = "ok"
       /\ ~FkRestricts(timesheet, tlast.want.client)

C15_TimestampsFollowUpdates ==
    \A id \in RowIds :
        Live(row, id)
        => /\ row[id].created_at = 0
           /\ row[id].updated_at = Now(commits, id)

\* C16: an Update that fails because another request changed or deleted the
\* row between the handler's Get and its Update returns a classified error
\* (ErrEditConflict or ErrRecordNotFound) and is answered edit-conflict or
\* not-found, never server-error; for every update handler, client included
C16_ConflictIsNotServerError ==
    \A r \in Requests :
        (/\ RowCalled(rreq[r])
         /\ rreq[r].err # "nil"
         /\ \/ rreq[r].stored.state = "deleted"
            \/ rreq[r].stored.version # rreq[r].seen.version)
        => /\ rreq[r].err \in {"ErrEditConflict", "ErrRecordNotFound"}
           /\ rreq[r].outcome \in {"edit_conflict", "not_found"}

\* the DuplicateKey error of each entity
DuplicateKeyError(e) ==
    CASE e = "role" -> "ErrDuplicateRoleName"
      [] e = "activity" -> "ErrDuplicateActivityName"
      [] e = "user" -> "ErrDuplicateEmail"
      [] e = "proposal" -> "ErrDuplicateProposalID"

\* C17: an Insert that violates a uniqueness constraint returns the entity's
\* DuplicateKey error and its create handler answers a validation failure,
\* not a server error
C17_DuplicateIsValidationFailure ==
    \A r \in Requests :
        rreq[r].pc = "created"
        => /\ rreq[r].err = DuplicateKeyError(entity)
           /\ rreq[r].outcome = "failed_validation"

\* a create or update request of the project handlers has been answered with
\* a validation error because a field of its body is missing or too short
FieldValidationFailed ==
    /\ plast.handler
    /\ plast.outcome \in {"failed_validation", "missing_required_fields"}
    /\ \/ plast.op = "Create"
       \/ plast.op = "Update" /\ ~ValidateUpdatingProjectInput(plast.Sin)

\* C18 as claimed: a request whose fields fail validation is answered before
\* it has issued any store read or write
C18_ValidatedBeforeAnyRead ==
    FieldValidationFailed => plast.reads = {} /\ ~plast.called

\* C18: a request whose fields fail validation is answered without any store
\* write and leaves the store as it is; a create request has issued no store
\* read either, while an update request has read the stored row with Get
\* before its body is decoded and validated
C18_ValidatedBeforeAnyWrite ==
    [][FieldValidationFailed'
       => /\ UNCHANGED <<project, client, project_client, assignment>>
          /\ ~plast'.called
          /\ plast'.staged = NoTx
          /\ plast'.op = "Create" => plast'.reads = {}
          /\ plast'.op = "Update"
             => /\ plast'.reads = {"Project.Get"}
                /\ \E r \in Requests : preq[r].pc = "got" /\ preq'[r].pc = "idle"
                /\ ProjectGet(ProjDb', plast'.p) = plast'.before]_vars

\* a PATCH with "client_names": [] has been answered with a validation error
\* after its Get returned the project
C18_Witness ==
    /\ FieldValidationFailed
    /\ plast.op = "Update"
    /\ plast.reads = {"Project.Get"}
    /\ plast.before.found
    /\ plast.outcome = "failed_validation"

\* C19: of two PATCH requests for the same row that have both read it before
\* either writes, at most one commits; and a PATCH that commits writes over
\* the row as it read it, so it reverts nothing that another committed PATCH
\* wrote in between
C19_NoLostUpdate ==
    /\ \A r \in Requests, o \in Requests :
        (/\ RowCalled(rreq[r]) /\ RowCalled(rreq[o])
         /\ r \in rreq[o].rivals
         /\ rreq[r].id = rreq[o].id
         /\ rreq[r].seen = rreq[o].seen)
        => ~(rreq[r].err = "nil" /\ rreq[o].err = "nil")
    /\ \A r \in Requests :
        (RowCalled(rreq[r]) /\ rreq[r].err = "nil")
        => /\ rreq[r].stored.name = rreq[r].seen.name
           /\ rreq[r].stored.version = rreq[r].seen.version

\* C20: ProjectModel.Insert and TimesheetModel.Insert return nil only if the
\* primary row and its join rows are committed, and when BeginTx, a statement
\* or Commit fails they return an error and nothing is stored
C20_NilMeansCommitted ==
    /\ plast.op = "Insert"
       => /\ plast.err = "nil"
             => /\ ProjectGet(ProjDb, plast.p).found
                /\ ProjectGet(ProjDb, plast.p).assignments = plast.A.set
          /\ plast.fault
             => plast.err # "nil" /\ ~ProjectGet(ProjDb, plast.p).found
    /\ tlast.op = "Insert"
       => /\ tlast.err = "nil"
             => /\ timesheet[tlast.t].state = "live"
                /\ JoinOf(ts_project, tlast.t) # {}
                /\ JoinOf(ts_client, tlast.t) # {}
                /\ JoinOf(ts_appuser, tlast.t) # {}
                /\ JoinOf(ts_activity, tlast.t) # {}
          /\ tlast.fault
             => tlast.err # "nil" /\ timesheet[tlast.t].state = "absent"

\* C21: a timesheet that the create or the update handler commits names, at
\* the moment it is committed, a user assigned to its project and a client
\* associated with its project, also when assignments and project clients
\* change while the handler runs
C21_CommittedReferencesAreValid ==
    [][\A r \in Requests, t \in TsIds :
          (/\ breq[r].pc = "checked"
           /\ breq'[r].pc = "idle"
           /\ timesheet'[t] # timesheet[t])
          => /\ ValidateUserID(refs'.assignment, timesheet'[t].project,
                               timesheet'[t].user)
             /\ ValidateClientID(refs'.project_client, timesheet'[t].project,
                                 timesheet'[t].client)]_vars

\* the statements of ProjectModel.Update and of TimesheetModel.Update, in the
\* order of the code; 0 is the call not yet made
ProjectPhase(pc) ==
    CASE pc = "delc" -> 1 [] pc = "insc" -> 2 [] pc = "dela" -> 3
      [] pc = "insa" -> 4 [] pc = "commit" -> 5 [] OTHER -> 0
TsPhase(pc) ==
    CASE pc = "project" -> 1 [] pc = "client" -> 2 [] pc = "activity" -> 3
      [] pc = "commit" -> 4 [] OTHER -> 0

\* C22: an Update call goes from its start through the version-guarded write
\* and the join-table statements to Commit, in that order: a join-table
\* write is staged only in a transaction whose version-guarded write has
\* succeeded, nothing is committed before the last step, and the call ends
\* either committed (nil, after Commit) or rolled back (an error and the
\* tables as they were)
C22_UpdatePhasesInOrder ==
    [][/\ preq' # preq =>
          \A r \in Requests :
             (preq'[r] # preq[r] /\ preq[r].pc # "idle") =>
                IF preq'[r].pc # "idle"
                THEN /\ ProjectPhase(preq'[r].pc) > ProjectPhase(preq[r].pc)
                     /\ ProjDb' = ProjDb
                     /\ preq'[r].tx.open
                     /\ preq'[r].tx.row.version = preq[r].seen.version + 1
                     /\ ProjectPhase(preq[r].pc) = 0 => preq'[r].tx = 
                            [NoTx EXCEPT !.open = TRUE, !.row = preq'[r].tx.row]
                ELSE plast'.called =>
                     \/ /\ plast'.err = "nil"
                        /\ preq[r].pc = "commit"
                        /\ ProjDb' = TxCommit(ProjDb, preq[r].tx, preq[r].p)
                     \/ /\ plast'.err # "nil"
                        /\ ProjDb' = ProjDb
       /\ treq' # treq =>
          \A r \in Requests :
             (treq'[r] # treq[r] /\ treq[r].pc # "idle") =>
                IF treq'[r].pc # "idle"
                THEN /\ TsPhase(treq'[r].pc) > TsPhase(treq[r].pc)
                     /\ TsDb' = TsDb
                     /\ treq'[r].tx.open
                     /\ treq'[r].tx.row.version = treq[r].seen.version + 1
                     /\ TsPhase(treq[r].pc) = 0 => treq'[r].tx =
                            [NoTsTx EXCEPT !.open = TRUE, !.row = treq'[r].tx.row]
                ELSE tlast'.op = "Update" =>
                     \/ /\ tlast'.err = "nil"
                        /\ treq[r].pc = "commit"
                        /\ TsDb' = TsTxCommit(TsDb, treq[r].tx, treq[r].t)
                     \/ /\ tlast'.err # "nil"
                        /\ TsDb' = TsDb]_vars

\* an Update has committed after deleting and inserting join rows
C22_Witness ==
    /\ plast.op = "Update"
    /\ plast.err = "nil"
    /\ plast.staged.del # {}
    /\ plast.staged.ins # {}

\* C23: an Update call changes no row but the one with the given key, and on
\* a version conflict it changes nothing and returns ErrEditConflict after
\* its one conditional write
C23_OneRowOneAttempt ==
    [][row' # row \/ rreq' # rreq =>
       \A r \in Requests :
          (rreq[r].pc = "got" /\ rreq'[r].pc = "done") =>
             /\ \A j \in RowIds \ {rreq[r].id} : row'[j] = row[j]
             /\ (/\ Live(row, rreq[r].id)
                 /\ row[rreq[r].id].version # rreq[r].seen.version) =>
                    /\ row' = row
                    /\ rreq'[r].err = "ErrEditConflict"]_vars

\* an Update has met a row that holds a later version, beside another row
C23_Witness ==
    \E r \in Requests :
       /\ rreq[r].pc = "done"
       /\ rreq[r].err = "ErrEditConflict"
       /\ rreq[r].stored.state = "live"
       /\ rreq[r].stored.version # rreq[r].seen.version
       /\ \E j \in RowIds \ {rreq[r].id} : Live(row, j)

\* C24: an Insert or an Update whose deadline passes before Commit returns an
\* error, and nothing it wrote is in the committed tables
C24_DeadlineMeansErrorAndNoWrite ==
    [][/\ (plast' # plast /\ plast'.fault) =>
             plast'.err # "nil" /\ ProjDb' = ProjDb
       /\ (tlast' # tlast /\ tlast'.fault) =>
             tlast'.err # "nil" /\ TsDb' = TsDb]_vars

\* the assignments lists that the body of a create or update request may
\* carry (ProjectInput.Assignments); neither handler copies the field into
\* the ProjectRequest it hands to Insert or Update
BodyAssignments == SUBSET Users

\* C25: whatever assignments list the body of a create or update request
\* carries, after the handler has answered with success the project has
\* exactly those assignments
C25_BodyAssignmentsStored ==
    [][(project' # project \/ plast' # plast) =>
       \A Ain \in BodyAssignments :
          /\ \A p \in ProjIds :
                (project[p].state = "absent" /\ project'[p].state = "live")
                => AssignedTo(assignment', p) = Ain
          /\ (/\ plast'.op = "Update"
              /\ plast'.handler
              /\ plast'.err = "nil")
             => AssignedTo(assignment', plast'.p) = Ain]_vars

\* C26: the minutes that one user's timesheets book on one work date add up
\* to 1440 at most
C26_DayHoldsAtMost1440 ==
    \A u \in Refs, d \in WorkDates : TotalMinutes(worked, u, d) <= DayMinutes

\* C27: a Delete that ran with no other Delete of the project beside it is
\* all or nothing: when it returns nil the project row and every object
\* under the prefix are gone; when it returns an error the project row is
\* still there and no object that was there is lost or left delete-marked
C27_DeleteIsAllOrNothing ==
    [][\A r \in Requests :
          (dreq[r].pc # "idle" /\ dreq'[r].pc = "idle" /\ dreq[r].alone) =>
             IF dlast' = "nil"
             THEN srow' = "deleted" /\ \A k \in ObjKeys : objs'[k] = "gone"
             ELSE /\ srow' = "live"
                  /\ \A k \in ObjKeys :
                        dreq[r].before[k] = "present" => objs'[k] = "present"]_vars

\* C28: every project has at least one client
C28_EveryProjectHasAClient ==
    \A p \in ProjIds :
       project[p].state = "live" => ClientsOf(project_client, p) # {}

\* C29: an activation token activates its user at most once: of the requests
\* that present it one is answered with success, and once a request has been
\* answered with success no activation token of the user is left
C29_TokenActivatesOnce ==
    /\ \A tk \in TokenIds : activations[tk] <= 1
    /\ (\E r \in Requests : areq[r].outcome = "ok") => tokens = {}

\* C30: a create request with every required field and no description is
\* accepted, and the timesheet it stores has the empty description
C30_DescriptionIsOptional ==
    [][(/\ wlast'.op = "create"
        /\ ~wlast'.described
        /\ wlast'.valid
        /\ \E t \in SheetIds : worked[t].state = "absent")
       => /\ wlast'.outcome = "created"
          /\ \E t \in SheetIds :
                /\ worked[t].state = "absent"
                /\ worked'[t].state = "live"
                /\ worked'[t].description = ""]_vars

====
